---- MODULE Spec2Model ----
(***************************************************************************)
(* A model of the acoustic FSK modem of XiGongZi/audio-message:             *)
(* the SimpleAudioModem class (framing, bit packing, ring buffer, the       *)
(* listen/stop life cycle and the decode loop) and the calls the page       *)
(* script makes on it.                                                      *)
(*                                                                          *)
(* Units.  Durations are in units of 10 microseconds, amplitudes and        *)
(* energies in thousandths of full scale, squared amplitudes in millionths. *)
(* A sample is a record [amp, tone]: amp is its amplitude and tone the      *)
(* index of the frequency bin (baseFrequency + tone * frequencyStep) it     *)
(* belongs to.                                                              *)
(***************************************************************************)
EXTENDS Integers, Sequences, FiniteSets, TLC

VARIABLES
  \* --- fields of SimpleAudioModem
  config,           \* this.config
  audioContext,     \* this.audioContext: "null" or "context"
  microphoneStream, \* this.microphoneStream: "null" or "stream"
  isListening,      \* this.isListening
  analysisNode,     \* this.analysisNode: "null" or "analyser"
  ringBuffer,       \* this.ringBuffer
  symbolSamples,    \* this.symbolSamples
  bitQueue,         \* this._bitQueue (undefined is the empty queue)
  byteBuffer,       \* this._byteBuffer (undefined is the empty queue)
  \* --- the host: promises, the animation-frame queue, the capture device
  startCalls,       \* startListening calls in flight, by the await they are at
  pendingTicks,     \* requestAnimationFrame callbacks scheduled and not yet run
  openStreams,      \* capture streams opened and whose tracks were not stopped
  ticksRun,         \* decode ticks that have read a block of samples
  \* --- what the last step did
  lastOp,           \* the operation the last step ran
  emitted,          \* the events the last step emitted, in order
  thrown,           \* the error the last step propagated to its caller
  tickLog,          \* the windows the last decode tick visited
  chunk,            \* the block the last _addToRingBuffer call appended
  \* --- inputs and results of the codec and framer runs
  message,          \* the text given to send
  packet,           \* the packet buildPacket returned
  waveform,         \* what _packetToSamples built: its length and its symbols
  fed,              \* how many symbols of the waveform the receiver has taken
  messages,         \* the message events the receiver emitted, in order
  stream,           \* the byte stream given to extractFrames
  frames,           \* the frames extractFrames returned
  pc                \* position of the codec / framer / ring run

modemVars == <<config, audioContext, microphoneStream, isListening, analysisNode,
               ringBuffer, symbolSamples, bitQueue, byteBuffer>>
hostVars == <<startCalls, pendingTicks, openStreams, ticksRun>>
stepVars == <<lastOp, emitted, thrown, tickLog, chunk>>
runVars == <<message, packet, waveform, fed, messages, stream, frames, pc>>
vars == <<modemVars, hostVars, stepVars, runVars>>

----------------------------------------------------------------------------
(* Bounds of the model. *)

\* longest text given to send (code points)
MaxMessageLen == 3
\* longest byte stream given to extractFrames
MaxStreamLen == 4
\* samples per symbol of the listening runs (1680 with the page's configuration)
ModelSymbolSamples == 2
\* samples the analyser hands over per decode tick (its fftSize, 2048, scaled
\* like the symbol length and, like it, not a multiple of the symbol length)
BlockLen == 3
\* decode ticks that read samples, per run
MaxTicks == 2
\* startListening calls in flight at once
MaxCalls == 2
\* animation-frame callbacks pending at once
MaxPending == 2
\* blocks appended in a ring buffer run
MaxAppends == 4
\* the bytes of a packet in a bit packing run
MaxPacketLen == 2
\* the byte queue run: free bytes before and after a run of filler bytes
MaxHead == 2
MaxTail == 4

(* Program constants. *)

\* CONTROL_BYTES.START
START == 2
\* CONTROL_BYTES.END
END == 3
\* the byte queue bound in _collectByte
MaxByteBuffer == 512
\* the ring buffer holds at most this many symbols
RingSymbols == 64
\* minEnergy of _loopDecode, 0.01
LoopMinEnergy == 10
\* the least bin power _detectSymbol accepts, 0.001
DetectorFloor == 1000
\* the null _detectSymbol returns
NoSymbol == -1

----------------------------------------------------------------------------
(* Arithmetic of the JavaScript operators the code uses. *)

Min(a, b) == IF a < b THEN a ELSE b

RECURSIVE Pow2(_)
Pow2(n) == IF n = 0 THEN 1 ELSE 2 * Pow2(n - 1)

\* a | b on non-negative integers
RECURSIVE BitOr(_, _)
BitOr(a, b) ==
  IF a = 0 THEN b
  ELSE IF b = 0 THEN a
  ELSE (IF a % 2 = 1 \/ b % 2 = 1 THEN 1 ELSE 0) + 2 * BitOr(a \div 2, b \div 2)

\* a & b on non-negative integers
RECURSIVE BitAnd(_, _)
BitAnd(a, b) ==
  IF a = 0 \/ b = 0 THEN 0
  ELSE (IF a % 2 = 1 /\ b % 2 = 1 THEN 1 ELSE 0) + 2 * BitAnd(a \div 2, b \div 2)

\* a << n and a >> n.  The code shifts values below 2^8 by less than 16 bits,
\* so the 32-bit wrap of the JavaScript shifts is never reached
ShiftLeft(a, n) == a * Pow2(n)
ShiftRight(a, n) == a \div Pow2(n)

\* Math.round(num / den) for num >= 0, den > 0: halves round up
RoundDiv(num, den) == (num \div den) + (IF 2 * (num % den) >= den THEN 1 ELSE 0)

\* Math.round(sampleRate * duration), the duration in units of 10 microseconds
RoundSamples(sampleRate, duration) == RoundDiv(sampleRate * duration, 100000)

----------------------------------------------------------------------------
(* Text encoding. *)

\* TextEncoder.encode: UTF-8, for code points below U+0800
RECURSIVE asciiBytes(_)
asciiBytes(text) ==
  IF text = <<>> THEN <<>>
  ELSE LET cp == Head(text) IN
       (IF cp < 128 THEN <<cp>>
        ELSE <<192 + (cp \div 64), 128 + (cp % 64)>>) \o asciiBytes(Tail(text))

IsContinuation(b) == b >= 128 /\ b <= 191

IsLead(b) == b >= 194 /\ b <= 223

\* TextDecoder.decode: UTF-8 with U+FFFD for every malformed byte; leads of
\* three and four byte sequences do not occur in the streams of this model.
\* A continuation byte right after a two-byte lead belongs to that lead's
\* code point; every other byte yields one code point of its own
bytesToString(bytes) ==
  LET n == Len(bytes)
      Trails(i) == i > 1 /\ IsLead(bytes[i - 1]) /\ IsContinuation(bytes[i])
      Begins(i) == ~Trails(i)
      begins == SelectSeq([i \in 1..n |-> i], Begins)
      Decode(i) ==
        LET b == bytes[i] IN
        IF b < 128 THEN b
        ELSE IF IsLead(b) /\ i < n /\ IsContinuation(bytes[i + 1])
             THEN (b - 192) * 64 + (bytes[i + 1] - 128)
        ELSE 65533
  IN [k \in 1..Len(begins) |-> Decode(begins[k])]

----------------------------------------------------------------------------
(* Framing. *)

\* new Uint8Array(n) is n zero bytes; data[0], data.set(payloadBytes, 1) and
\* data[data.length - 1] are then written, in that order
buildPacket(payloadBytes) ==
  LET length == 2 + Len(payloadBytes) + 1 IN
  [i \in 1..length |->
     IF i = length THEN END
     ELSE IF i = 1 THEN START
     ELSE IF i - 1 <= Len(payloadBytes) THEN payloadBytes[i - 1]
     ELSE 0]

\* the index of the first b in s at or after index i, 0 if there is none
NextIndex(s, b, i) ==
  IF \E j \in i..Len(s) : s[j] = b
  THEN CHOOSE j \in i..Len(s) : s[j] = b /\ \A k \in i..(j - 1) : s[k] # b
  ELSE 0

\* the loop of extractFrames from index i on, where it is not collecting,
\* taken a frame at a time: it passes over the bytes before the next START,
\* then collects every byte up to the next END and pushes the frame; bytes
\* collected when the buffer ends are dropped
RECURSIVE ScanFrames(_, _, _)
ScanFrames(buffer, i, found) ==
  LET start == NextIndex(buffer, START, i) IN
  IF start = 0 THEN found
  ELSE LET end == NextIndex(buffer, END, start + 1) IN
       IF end = 0 THEN found
       ELSE ScanFrames(buffer, end + 1,
                       Append(found, SubSeq(buffer, start + 1, end - 1)))

\* a scanner that starts its frame again on a START seen inside a frame
RECURSIVE ScanFramesRestart(_, _, _, _, _)
ScanFramesRestart(buffer, i, collecting, current, found) ==
  IF i > Len(buffer) THEN found
  ELSE LET byte == buffer[i] IN
       IF byte = START
       THEN ScanFramesRestart(buffer, i + 1, TRUE, <<>>, found)
       ELSE IF ~collecting
       THEN ScanFramesRestart(buffer, i + 1, FALSE, current, found)
       ELSE IF byte = END
            THEN ScanFramesRestart(buffer, i + 1, FALSE, <<>>, Append(found, current))
            ELSE ScanFramesRestart(buffer, i + 1, TRUE, Append(current, byte), found)

extractFramesRestart(buffer) == ScanFramesRestart(buffer, 1, FALSE, <<>>, <<>>)

extractFrames(buffer) == ScanFrames(buffer, 1, <<>>)

----------------------------------------------------------------------------
(* Bit packing: bytes to symbols (sender) and symbols to bytes (receiver). *)

\* the inner while loop of _packetToSamples: one symbol per bitsPerSymbol bits
RECURSIVE DrainSymbols(_, _, _, _)
DrainSymbols(bitBuffer, bitCount, bits, out) ==
  IF bitCount >= bits
  THEN DrainSymbols(ShiftRight(bitBuffer, bits), bitCount - bits, bits,
                    Append(out, BitAnd(bitBuffer, ShiftLeft(1, bits) - 1)))
  ELSE [bitBuffer |-> bitBuffer, bitCount |-> bitCount, out |-> out]

\* the for loop of _packetToSamples from byte i on: the symbols synthesized
RECURSIVE EncodeBytes(_, _, _, _, _, _)
EncodeBytes(pkt, i, bitBuffer, bitCount, bits, out) ==
  IF i > Len(pkt) THEN out
  ELSE LET d == DrainSymbols(BitOr(bitBuffer, ShiftLeft(pkt[i], bitCount)),
                             bitCount + 8, bits, out)
       IN EncodeBytes(pkt, i + 1, d.bitBuffer, d.bitCount, bits, d.out)

\* a sender that lays out one guard tone only
packetToSamplesOneGuard(pkt, cfg, symSamples) ==
  LET guardSamples == RoundSamples(cfg.sampleRate, cfg.guardDuration) IN
  [length |-> (Len(pkt) * 8 * symSamples) \div cfg.bitsPerSymbol + guardSamples,
   guardSamples |-> guardSamples,
   symbols |-> EncodeBytes(pkt, 1, 0, 0, cfg.bitsPerSymbol, <<>>)]

\* _packetToSamples: the length of the Float32Array it allocates (a fractional
\* length is truncated by the constructor), the guard length and the symbols
\* it synthesizes, in order
packetToSamples(pkt, cfg, symSamples) ==
  LET guardSamples == RoundSamples(cfg.sampleRate, cfg.guardDuration) IN
  [length |-> (Len(pkt) * 8 * symSamples) \div cfg.bitsPerSymbol + guardSamples * 2,
   guardSamples |-> guardSamples,
   symbols |-> EncodeBytes(pkt, 1, 0, 0, cfg.bitsPerSymbol, <<>>)]

MessageEvent(text) == [type |-> "message", payload |-> text]
StatusEvent(text) == [type |-> "status", payload |-> text]
ErrorEvent(text) == [type |-> "error", payload |-> text]

\* a _collectByte whose byte queue has no bound
collectByteUnbounded(bytes, bits, byte) ==
  LET kept == Append(bytes, byte)
      found == extractFrames(kept)
  IN IF Len(found) = 0
     THEN [byteBuffer |-> kept, bitQueue |-> bits, events |-> <<>>, frames |-> found]
     ELSE [byteBuffer |-> <<>>, bitQueue |-> <<>>,
           events |-> <<MessageEvent(bytesToString(found[Len(found)]))>>,
           frames |-> found]

\* a _collectByte that emits the last frame and keeps both queues
collectByteNoReset(bytes, bits, byte) ==
  LET pushed == Append(bytes, byte)
      kept == IF Len(pushed) > MaxByteBuffer THEN Tail(pushed) ELSE pushed
      found == extractFrames(kept)
  IN IF Len(found) = 0
     THEN [byteBuffer |-> kept, bitQueue |-> bits, events |-> <<>>, frames |-> found]
     ELSE [byteBuffer |-> kept, bitQueue |-> bits,
           events |-> <<MessageEvent(bytesToString(found[Len(found)]))>>,
           frames |-> found]

\* _collectByte on the queues (bytes, bits): the queues afterwards, the
\* events emitted and the frames its scan of the byte queue found
collectByte(bytes, bits, byte) ==
  LET pushed == Append(bytes, byte)
      kept == IF Len(pushed) > MaxByteBuffer THEN Tail(pushed) ELSE pushed
      found == extractFrames(kept)
  IN IF Len(found) = 0
     THEN [byteBuffer |-> kept, bitQueue |-> bits, events |-> <<>>, frames |-> found]
     ELSE [byteBuffer |-> <<>>, bitQueue |-> <<>>,
           events |-> <<MessageEvent(bytesToString(found[Len(found)]))>>,
           frames |-> found]

\* the while loop of _handleDetectedSymbol: symbols leave the queue until
\* eight bits are gathered or the queue is empty
RECURSIVE GatherByte(_, _, _, _)
GatherByte(bits, byte, shift, width) ==
  IF Len(bits) > 0 /\ shift < 8
  THEN GatherByte(Tail(bits), BitOr(byte, ShiftLeft(Head(bits), shift)),
                  shift + width, width)
  ELSE [bitQueue |-> bits, byte |-> byte]

\* _handleDetectedSymbol; length >= 8 / bitsPerSymbol is a comparison of reals
handleDetectedSymbol(bytes, bits, symbol, width) ==
  LET pushed == Append(bits, symbol) IN
  IF Len(pushed) * width >= 8
  THEN LET g == GatherByte(pushed, 0, 0, width)
       IN collectByte(bytes, g.bitQueue, BitAnd(g.byte, 255))
  ELSE [byteBuffer |-> bytes, bitQueue |-> pushed, events |-> <<>>, frames |-> <<>>]

----------------------------------------------------------------------------
(* Construction and init. *)

\* DEFAULT_CONFIG; it names no minEnergy
DEFAULT_CONFIG ==
  [sampleRate |-> 48000, bitsPerSymbol |-> 4, symbolDuration |-> 4000,
   baseFrequency |-> 1200, frequencyStep |-> 120, guardDuration |-> 12000,
   amplitude |-> 300]

\* { ...a, ...b }: the fields of b replace those of a
Merge(a, b) == [k \in DOMAIN a \cup DOMAIN b |-> IF k \in DOMAIN b THEN b[k] ELSE a[k]]

BASE_MODEM_CONFIG ==
  [sampleRate |-> 48000, bitsPerSymbol |-> 4, symbolDuration |-> 3500,
   guardDuration |-> 10000]

CHANNEL_PRESETS ==
  [audible |-> [baseFrequency |-> 1500, frequencyStep |-> 130, amplitude |-> 220,
                minEnergy |-> 6],
   high |-> [baseFrequency |-> 8200, frequencyStep |-> 180, amplitude |-> 180,
             minEnergy |-> 4],
   ultrasonic |-> [baseFrequency |-> 17500, frequencyStep |-> 180, amplitude |-> 120,
                   minEnergy |-> 3]]

\* the configuration the page constructs its modem with
PageConfig == Merge(BASE_MODEM_CONFIG, CHANNEL_PRESETS["audible"])

Silence == [amp |-> 0, tone |-> 0]

\* new Float32Array(n)
Zeros(n) == [i \in 1..n |-> Silence]

\* the state new SimpleAudioModem(cfg) leaves
Constructed(cfg) ==
  /\ config = Merge(DEFAULT_CONFIG, cfg)
  /\ audioContext = "null"
  /\ microphoneStream = "null"
  /\ isListening = FALSE
  /\ analysisNode = "null"
  /\ ringBuffer = <<>>
  /\ symbolSamples = 0
  /\ bitQueue = <<>>
  /\ byteBuffer = <<>>

HostIdle ==
  /\ startCalls = [awaitInit |-> 0, awaitMedia |-> 0]
  /\ pendingTicks = 0
  /\ openStreams = 0
  /\ ticksRun = 0

NoStep ==
  /\ lastOp = "new"
  /\ emitted = <<>>
  /\ thrown = "none"
  /\ tickLog = <<>>
  /\ chunk = <<>>

\* init(): the first call creates the context and sizes the buffers
init ==
  IF audioContext # "null"
  THEN UNCHANGED <<audioContext, symbolSamples, ringBuffer>>
  ELSE /\ audioContext' = "context"
       /\ symbolSamples' = RoundSamples(config.sampleRate, config.symbolDuration)
       /\ ringBuffer' = Zeros(RoundSamples(config.sampleRate, config.symbolDuration))

----------------------------------------------------------------------------
(* send. *)

NoWaveform == [length |-> 0, guardSamples |-> 0, symbols |-> <<>>]

\* send(text).  The awaits of send give way to nothing that changes what it
\* reads: the configuration and, once init has run, the symbol length
send(text) ==
  /\ init
  /\ packet' = buildPacket(asciiBytes(text))
  /\ waveform' = packetToSamples(packet', config, symbolSamples')
  /\ lastOp' = "send"
  /\ emitted' = <<>>
  /\ thrown' = "none"
  /\ UNCHANGED <<config, microphoneStream, isListening, analysisNode, bitQueue,
                 byteBuffer, hostVars, tickLog, chunk>>

----------------------------------------------------------------------------
(* The codec run: one text is sent, and the symbols of its waveform are     *)
(* handed in order to the receiving side of a modem with empty queues, as   *)
(* a noiseless channel with matching timing delivers them.                  *)

SeqsUpTo(S, n) == UNION {[1..k -> S] : k \in 0..n}

\* the code points of the texts sent: the two sentinels, "A", "h", "i", U+00E9
CodePoints == {START, END, 65, 104, 105, 233}

CodecInit ==
  /\ Constructed(PageConfig)
  /\ HostIdle
  /\ NoStep
  /\ message \in SeqsUpTo(CodePoints, MaxMessageLen)
  /\ packet = <<>>
  /\ waveform = NoWaveform
  /\ fed = 0
  /\ messages = <<>>
  /\ stream = <<>>
  /\ frames = <<>>
  /\ pc = "ready"

CodecSend ==
  /\ pc = "ready"
  /\ send(message)
  /\ pc' = "sent"
  /\ UNCHANGED <<message, fed, messages, stream, frames>>

CodecReceive ==
  /\ pc = "sent"
  /\ fed < Len(waveform.symbols)
  /\ LET r == handleDetectedSymbol(byteBuffer, bitQueue, waveform.symbols[fed + 1],
                                   config.bitsPerSymbol)
     IN /\ byteBuffer' = r.byteBuffer
        /\ bitQueue' = r.bitQueue
        /\ emitted' = r.events
        /\ messages' = messages \o r.events
  /\ fed' = fed + 1
  /\ lastOp' = "symbol"
  /\ thrown' = "none"
  /\ UNCHANGED <<config, audioContext, microphoneStream, isListening, analysisNode,
                 ringBuffer, symbolSamples, hostVars, tickLog, chunk,
                 message, packet, waveform, stream, frames, pc>>

CodecNext == CodecSend \/ CodecReceive

SpecCodec == CodecInit /\ [][CodecNext]_vars

\* the whole waveform has been received
CodecDone == pc = "sent" /\ fed = Len(waveform.symbols)

HasSentinel(bytes) == \E i \in 1..Len(bytes) : bytes[i] \in {START, END}

----------------------------------------------------------------------------
(* The framer run: extractFrames on one byte stream. *)

StreamBytes == {START, END, 65, 66}

FramerInit ==
  /\ Constructed(PageConfig)
  /\ HostIdle
  /\ NoStep
  /\ message = <<>>
  /\ packet = <<>>
  /\ waveform = NoWaveform
  /\ fed = 0
  /\ messages = <<>>
  /\ stream \in SeqsUpTo(StreamBytes, MaxStreamLen)
  /\ frames = <<>>
  /\ pc = "ready"

FramerScan ==
  /\ pc = "ready"
  /\ frames' = extractFrames(stream)
  /\ pc' = "scanned"
  /\ lastOp' = "extractFrames"
  /\ UNCHANGED <<modemVars, hostVars, emitted, thrown, tickLog, chunk,
                 message, packet, waveform, fed, messages, stream>>

FramerNext == FramerScan

SpecFramer == FramerInit /\ [][FramerNext]_vars

----------------------------------------------------------------------------
(* The receiver: ring buffer, energy gate, detector. *)

\* a ring buffer that keeps its oldest samples
addToRingBufferKeepOldest(ring, newChunk, symSamples) ==
  LET extended == ring \o newChunk
      maxLength == symSamples * RingSymbols
  IN IF Len(extended) > maxLength
     THEN SubSeq(extended, 1, maxLength)
     ELSE extended

\* _addToRingBuffer: the buffer afterwards
addToRingBuffer(ring, newChunk, symSamples) ==
  LET extended == ring \o newChunk
      maxLength == symSamples * RingSymbols
  IN IF Len(extended) > maxLength
     THEN SubSeq(extended, Len(extended) - maxLength + 1, Len(extended))
     ELSE extended

\* the sum _computeEnergy accumulates
RECURSIVE SumSquares(_)
SumSquares(slice) ==
  IF slice = <<>> THEN 0
  ELSE Head(slice).amp * Head(slice).amp + SumSquares(Tail(slice))

\* an energy gate that passes over the loud windows instead of the quiet ones
EnergyBelowInverted(slice, threshold) ==
  SumSquares(slice) > threshold * threshold * Len(slice)

\* _computeEnergy(slice) < threshold, squared on both sides:
\* sqrt(sum / length) < threshold  iff  sum < threshold^2 * length
EnergyBelow(slice, threshold) ==
  SumSquares(slice) < threshold * threshold * Len(slice)

RECURSIVE SumAmp(_, _)
SumAmp(slice, bin) ==
  IF slice = <<>> THEN 0
  ELSE (IF Head(slice).tone = bin THEN Head(slice).amp ELSE 0)
       + SumAmp(Tail(slice), bin)

\* _goertzel for the frequency of bin: the power of the slice at that
\* frequency.  A tone of amplitude A held for N samples has power (A N / 2)^2
\* at its own frequency and none at the others (an ideal filter bank)
goertzel(slice, bin) == (SumAmp(slice, bin) * SumAmp(slice, bin)) \div 4

\* the for loop of _detectSymbol from bin i on
RECURSIVE BestBin(_, _, _, _, _)
BestBin(slice, i, binCount, bestIndex, bestEnergy) ==
  IF i >= binCount THEN [index |-> bestIndex, energy |-> bestEnergy]
  ELSE LET energy == goertzel(slice, i) IN
       IF energy > bestEnergy
       THEN BestBin(slice, i + 1, binCount, i, energy)
       ELSE BestBin(slice, i + 1, binCount, bestIndex, bestEnergy)

detectSymbol(slice, cfg) ==
  LET best == BestBin(slice, 0, ShiftLeft(1, cfg.bitsPerSymbol), -1, 0) IN
  IF best.energy < DetectorFloor THEN NoSymbol ELSE best.index

\* ringBuffer.subarray(offset, offset + symbolSamples)
Window(ring, offset, symSamples) == SubSeq(ring, offset + 1, offset + symSamples)

\* the for loop of _loopDecode from offset on: queues, events and the log of
\* the windows visited (skipped: the energy gate passed over the window and
\* the detector was not run)
RECURSIVE ScanWindows(_, _, _, _, _, _, _, _)
ScanWindows(ring, offset, symSamples, cfg, bytes, bits, events, log) ==
  IF offset + symSamples > Len(ring)
  THEN [byteBuffer |-> bytes, bitQueue |-> bits, events |-> events, log |-> log]
  ELSE LET slice == Window(ring, offset, symSamples) IN
       IF EnergyBelow(slice, LoopMinEnergy)
       THEN ScanWindows(ring, offset + symSamples, symSamples, cfg, bytes, bits, events,
                        Append(log, [offset |-> offset, skipped |-> TRUE,
                                     symbol |-> NoSymbol]))
       ELSE LET symbolValue == detectSymbol(slice, cfg)
                entry == [offset |-> offset, skipped |-> FALSE, symbol |-> symbolValue]
            IN IF symbolValue = NoSymbol
               THEN ScanWindows(ring, offset + symSamples, symSamples, cfg, bytes, bits,
                                events, Append(log, entry))
               ELSE LET r == handleDetectedSymbol(bytes, bits, symbolValue,
                                                  cfg.bitsPerSymbol)
                    IN ScanWindows(ring, offset + symSamples, symSamples, cfg,
                                   r.byteBuffer, r.bitQueue, events \o r.events,
                                   Append(log, entry))

\* the body of _loopDecode once it has found the modem listening: the block
\* read from the analyser is appended and every window of the buffer scanned
loopDecode(ring, timeDomain, symSamples, cfg, bytes, bits) ==
  LET appended == addToRingBuffer(ring, timeDomain, symSamples)
      r == ScanWindows(appended, 0, symSamples, cfg, bytes, bits, <<>>, <<>>)
  IN [ringBuffer |-> appended, byteBuffer |-> r.byteBuffer, bitQueue |-> r.bitQueue,
      events |-> r.events, log |-> r.log]

----------------------------------------------------------------------------
(* The life cycle: startListening, stopListening, the decode tick. *)

\* what the analyser can hand over in one tick: silence, a sound under the
\* loop's energy gate, a sound over the gate but under the detector's floor,
\* and a full tone
Quiet == [amp |-> 8, tone |-> 0]
Faint == [amp |-> 12, tone |-> 0]
Tone(bin) == [amp |-> 40, tone |-> bin]
SampleKinds == {Silence, Quiet, Faint, Tone(2)}
Blocks == {[i \in 1..BlockLen |-> k] : k \in SampleKinds}

CallsInFlight == startCalls.awaitInit + startCalls.awaitMedia

\* startListening up to its first await: init() has run, the caller has its
\* promise
startListening ==
  /\ CallsInFlight < MaxCalls
  /\ init
  /\ startCalls' = [startCalls EXCEPT !.awaitInit = @ + 1]
  /\ lastOp' = "startListening"
  /\ emitted' = <<>>
  /\ thrown' = "none"
  /\ UNCHANGED <<config, microphoneStream, isListening, analysisNode, bitQueue,
                 byteBuffer, pendingTicks, openStreams, ticksRun, tickLog, chunk,
                 runVars>>

\* startListening after await this.init(): it returns if the modem listens,
\* and asks for the microphone otherwise
startResume ==
  /\ startCalls.awaitInit > 0
  /\ startCalls' = IF isListening
                   THEN [startCalls EXCEPT !.awaitInit = @ - 1]
                   ELSE [awaitInit |-> startCalls.awaitInit - 1,
                         awaitMedia |-> startCalls.awaitMedia + 1]
  /\ lastOp' = "startListening.resumed"
  /\ emitted' = <<>>
  /\ thrown' = "none"
  /\ UNCHANGED <<modemVars, pendingTicks, openStreams, ticksRun, tickLog, chunk,
                 runVars>>

\* a denied request that has already raised the listening flag
permissionDeniedFlagSet ==
  /\ startCalls.awaitMedia > 0
  /\ startCalls.awaitInit = 0
  /\ startCalls' = [startCalls EXCEPT !.awaitMedia = @ - 1]
  /\ isListening' = TRUE
  /\ lastOp' = "startListening.denied"
  /\ emitted' = <<ErrorEvent("permission")>>
  /\ thrown' = "permission"
  /\ UNCHANGED <<config, audioContext, microphoneStream, analysisNode, ringBuffer,
                 symbolSamples, bitQueue, byteBuffer, pendingTicks, openStreams,
                 ticksRun, tickLog, chunk, runVars>>

\* getUserMedia rejects: the catch block emits an error event and rethrows
permissionDenied ==
  /\ startCalls.awaitMedia > 0
  /\ startCalls.awaitInit = 0
  /\ startCalls' = [startCalls EXCEPT !.awaitMedia = @ - 1]
  /\ lastOp' = "startListening.denied"
  /\ emitted' = <<ErrorEvent("permission")>>
  /\ thrown' = "permission"
  /\ UNCHANGED <<modemVars, pendingTicks, openStreams, ticksRun, tickLog, chunk,
                 runVars>>

\* getUserMedia resolves: the stream is kept, the analyser created, the flag
\* raised, the status emitted and _loopDecode called, which runs its first
\* tick at once and schedules the next
permissionGranted ==
  /\ startCalls.awaitMedia > 0
  /\ startCalls.awaitInit = 0
  /\ ticksRun < MaxTicks
  /\ pendingTicks < MaxPending
  /\ startCalls' = [startCalls EXCEPT !.awaitMedia = @ - 1]
  /\ microphoneStream' = "stream"
  /\ openStreams' = openStreams + 1
  /\ analysisNode' = "analyser"
  /\ isListening' = TRUE
  /\ \E timeDomain \in Blocks :
       LET r == loopDecode(ringBuffer, timeDomain, symbolSamples, config,
                           byteBuffer, bitQueue)
       IN /\ ringBuffer' = r.ringBuffer
          /\ byteBuffer' = r.byteBuffer
          /\ bitQueue' = r.bitQueue
          /\ emitted' = <<StatusEvent("started")>> \o r.events
          /\ tickLog' = r.log
          /\ chunk' = timeDomain
  /\ pendingTicks' = pendingTicks + 1
  /\ ticksRun' = ticksRun + 1
  /\ lastOp' = "startListening.granted"
  /\ thrown' = "none"
  /\ UNCHANGED <<config, audioContext, symbolSamples, runVars>>

\* a stopListening without its first line
stopListeningUnguarded ==
  /\ openStreams' = IF microphoneStream # "null" THEN openStreams - 1 ELSE openStreams
  /\ analysisNode' = "null"
  /\ microphoneStream' = "null"
  /\ isListening' = FALSE
  /\ emitted' = <<StatusEvent("stopped")>>
  /\ lastOp' = "stopListening"
  /\ thrown' = "none"
  /\ UNCHANGED <<config, audioContext, ringBuffer, symbolSamples, bitQueue,
                 byteBuffer, startCalls, pendingTicks, ticksRun, tickLog, chunk,
                 runVars>>

stopListening ==
  /\ lastOp' = "stopListening"
  /\ thrown' = "none"
  /\ IF ~isListening
     THEN /\ emitted' = <<>>
          /\ UNCHANGED <<modemVars, openStreams>>
     ELSE /\ openStreams' =
               IF microphoneStream # "null" THEN openStreams - 1 ELSE openStreams
          /\ analysisNode' = "null"
          /\ microphoneStream' = "null"
          /\ isListening' = FALSE
          /\ emitted' = <<StatusEvent("stopped")>>
          /\ UNCHANGED <<config, audioContext, ringBuffer, symbolSamples, bitQueue,
                         byteBuffer>>
  /\ UNCHANGED <<startCalls, pendingTicks, ticksRun, tickLog, chunk, runVars>>

\* a callback that asks for the next frame before it looks at the flag
tickIdleReschedules ==
  /\ pendingTicks > 0
  /\ startCalls.awaitInit = 0
  /\ ~isListening \/ analysisNode = "null"
  /\ lastOp' = "tick"
  /\ thrown' = "none"
  /\ emitted' = <<>>
  /\ tickLog' = <<>>
  /\ UNCHANGED <<modemVars, hostVars, chunk, runVars>>

\* an animation-frame callback runs _loopDecode.  Callbacks run between
\* tasks, so never while a call waits on the microtask of await this.init()
tick ==
  /\ pendingTicks > 0
  /\ startCalls.awaitInit = 0
  /\ lastOp' = "tick"
  /\ thrown' = "none"
  /\ IF ~isListening \/ analysisNode = "null"
     THEN /\ pendingTicks' = pendingTicks - 1
          /\ emitted' = <<>>
          /\ tickLog' = <<>>
          /\ UNCHANGED <<modemVars, ticksRun, chunk>>
     ELSE /\ ticksRun < MaxTicks
          /\ \E timeDomain \in Blocks :
               LET r == loopDecode(ringBuffer, timeDomain, symbolSamples, config,
                                   byteBuffer, bitQueue)
               IN /\ ringBuffer' = r.ringBuffer
                  /\ byteBuffer' = r.byteBuffer
                  /\ bitQueue' = r.bitQueue
                  /\ emitted' = r.events
                  /\ tickLog' = r.log
                  /\ chunk' = timeDomain
          /\ pendingTicks' = pendingTicks
          /\ ticksRun' = ticksRun + 1
          /\ UNCHANGED <<config, audioContext, microphoneStream, isListening,
                         analysisNode, symbolSamples>>
  /\ UNCHANGED <<startCalls, openStreams, runVars>>

\* an animation-frame callback finds the modem listening and the read of the
\* samples raises an error (the capture device is gone, say).  _loopDecode
\* has no try: the error leaves the callback before a sample is appended and
\* before requestAnimationFrame is reached, and no event is emitted
tickThrows ==
  /\ pendingTicks > 0
  /\ startCalls.awaitInit = 0
  /\ isListening /\ analysisNode # "null"
  /\ pendingTicks' = pendingTicks - 1
  /\ lastOp' = "tick.error"
  /\ thrown' = "runtime"
  /\ emitted' = <<>>
  /\ tickLog' = <<>>
  /\ UNCHANGED <<modemVars, startCalls, openStreams, ticksRun, chunk, runVars>>

\* the methods the class SimpleAudioModem defines
ModemMethods ==
  {"constructor", "on", "off", "emit", "init", "startListening", "stopListening",
   "send", "_packetToSamples", "_synthesizeSymbol", "_generateGuardTone",
   "_loopDecode", "_addToRingBuffer", "_computeEnergy", "_detectSymbol",
   "_handleDetectedSymbol", "_collectByte", "_goertzel"}

\* applyChannel(channelKey) of the page: its call modem.updateConfig(...) is a
\* call of a property the modem does not have, a TypeError, and the rest of
\* applyChannel does not run
applyChannel(channelKey) ==
  /\ channelKey \in DOMAIN CHANNEL_PRESETS
  /\ "updateConfig" \notin ModemMethods
  /\ lastOp' = "updateConfig"
  /\ emitted' = <<>>
  /\ thrown' = "TypeError"
  /\ UNCHANGED <<modemVars, hostVars, tickLog, chunk, runVars>>

\* the configuration of the listening runs: the page's, at a sample rate and
\* a symbol length that give ModelSymbolSamples samples per symbol
ListenConfig ==
  Merge(PageConfig, [sampleRate |-> 10000, symbolDuration |-> 10 * ModelSymbolSamples,
                     guardDuration |-> 20])

Init ==
  /\ Constructed(ListenConfig)
  /\ HostIdle
  /\ NoStep
  /\ message = <<>>
  /\ packet = <<>>
  /\ waveform = NoWaveform
  /\ fed = 0
  /\ messages = <<>>
  /\ stream = <<>>
  /\ frames = <<>>
  /\ pc = "page"

Next ==
  \/ startListening
  \/ startResume
  \/ permissionGranted
  \/ permissionDenied
  \/ stopListening
  \/ tick
  \/ tickThrows
  \/ \E k \in DOMAIN CHANNEL_PRESETS : applyChannel(k)

Spec == Init /\ [][Next]_vars

\* the animation-frame callback scheduled for a modem that has stopped
\* runs, and the continuation of an await runs, if nothing disables them
SpecFair == Spec /\ WF_vars(~isListening /\ tick) /\ WF_vars(startResume)

----------------------------------------------------------------------------
(* The ring buffer run: init, then blocks of several lengths are appended.  *)
(* Every appended sample carries its arrival number as its amplitude, so    *)
(* the content of the buffer tells which samples were kept.                 *)

RingBlockLengths ==
  {1, BlockLen, (RingSymbols * ModelSymbolSamples) \div 2,
   RingSymbols * ModelSymbolSamples + 2}

\* the next block of n samples after the samples of ring
NumberedBlock(ring, n) ==
  [i \in 1..n |-> [amp |-> ring[Len(ring)].amp + i, tone |-> 0]]

RingInit ==
  /\ Constructed(ListenConfig)
  /\ HostIdle
  /\ NoStep
  /\ message = <<>>
  /\ packet = <<>>
  /\ waveform = NoWaveform
  /\ fed = 0
  /\ messages = <<>>
  /\ stream = <<>>
  /\ frames = <<>>
  /\ pc = "ring"

RingStart ==
  /\ audioContext = "null"
  /\ init
  /\ lastOp' = "init"
  /\ UNCHANGED <<config, microphoneStream, isListening, analysisNode, bitQueue,
                 byteBuffer, hostVars, emitted, thrown, tickLog, chunk, runVars>>

RingAppend ==
  /\ audioContext # "null"
  /\ ticksRun < MaxAppends
  /\ \E n \in RingBlockLengths :
       /\ chunk' = NumberedBlock(ringBuffer, n)
       /\ ringBuffer' = addToRingBuffer(ringBuffer, chunk', symbolSamples)
  /\ ticksRun' = ticksRun + 1
  /\ lastOp' = "addToRingBuffer"
  /\ UNCHANGED <<config, audioContext, microphoneStream, isListening, analysisNode,
                 symbolSamples, bitQueue, byteBuffer, startCalls, pendingTicks,
                 openStreams, emitted, thrown, tickLog, runVars>>

RingNext == RingStart \/ RingAppend

SpecRing == RingInit /\ [][RingNext]_vars

----------------------------------------------------------------------------
(* Properties. *)

\* C1: the round trip over a noiseless channel.  For a payload with no START
\* and no END byte, once every symbol of the packet's waveform has gone
\* through _handleDetectedSymbol, exactly one message has been emitted and
\* its text is the payload's text.
C1_RoundTrip ==
  (CodecDone /\ ~HasSentinel(asciiBytes(message)))
    => messages = <<MessageEvent(bytesToString(asciiBytes(message)))>>

\* C2: the packet buildPacket returns is START, the payload bytes, END, and
\* nothing else.
C2_PacketLayout ==
  pc = "sent" =>
    /\ Len(packet) = Len(asciiBytes(message)) + 2
    /\ packet = <<START>> \o asciiBytes(message) \o <<END>>

\* the scanner is inside a frame when it reads position i of s: a START lies
\* before i with no END between it and i
Collecting(s, i) ==
  \E k \in 1..(i - 1) : s[k] = START /\ \A j \in (k + 1)..(i - 1) : s[j] # END

\* the positions whose END closes a frame
FrameEnds(s) == {e \in 1..Len(s) : s[e] = END /\ Collecting(s, e)}

\* the START, seen while idle, that opened the frame closed at e
Opening(s, e) ==
  CHOOSE k \in 1..(e - 1) :
    /\ s[k] = START
    /\ ~Collecting(s, k)
    /\ \A j \in (k + 1)..(e - 1) : s[j] # END

FreshRings == {<<>>, Zeros(symbolSamples)}

\* C5: after an effective stopListening the ring buffer and both queues hold
\* nothing, and after a successful startListening they hold only what the
\* first tick of the new session put there.
C5_StartResetsStopDiscards ==
  /\ (lastOp = "stopListening" /\ emitted # <<>>)
       => (ringBuffer \in FreshRings /\ bitQueue = <<>> /\ byteBuffer = <<>>)
  /\ lastOp = "startListening.granted"
       => \E fresh \in FreshRings :
            LET r == loopDecode(fresh, chunk, symbolSamples, config, <<>>, <<>>)
            IN /\ ringBuffer = r.ringBuffer
               /\ bitQueue = r.bitQueue
               /\ byteBuffer = r.byteBuffer

\* C6: a call of updateConfig completes without error, leaves the
\* configuration holding the values given and the symbol length recomputed.
C6_UpdateConfigApplies ==
  lastOp = "updateConfig" =>
    /\ thrown = "none"
    /\ \E k \in DOMAIN CHANNEL_PRESETS :
         \A f \in DOMAIN CHANNEL_PRESETS[k] : config[f] = CHANNEL_PRESETS[k][f]
    /\ (audioContext # "null"
          => symbolSamples = RoundSamples(config.sampleRate, config.symbolDuration))

\* C7: every stopListening leaves the modem idle, and a stopListening on an
\* idle modem changes no field of the modem, nothing of the host, and emits
\* nothing; so a second stop in a row changes nothing.
C7_StopIdempotent ==
  [][lastOp' = "stopListening" =>
       /\ ~isListening'
       /\ (~isListening => (emitted' = <<>> /\ UNCHANGED <<modemVars, hostVars>>))]_vars

\* C7 witness: a modem that has listened and was stopped is stopped again
C7_Witness ==
  /\ lastOp = "stopListening"
  /\ emitted = <<>>
  /\ ticksRun > 0
  /\ ~isListening

\* C8: when the capture device cannot be opened, the call emits one error
\* event and nothing else, hands the error to its caller, and changes
\* neither the modem nor the tick queue nor the open streams; an idle modem
\* is idle afterwards, with no stream held.
C8_DeniedStaysIdle ==
  [][lastOp' = "startListening.denied" =>
       /\ emitted' = <<ErrorEvent("permission")>>
       /\ thrown' = "permission"
       /\ UNCHANGED <<modemVars, pendingTicks, openStreams>>
       /\ (~isListening => (~isListening' /\ microphoneStream' = "null"))]_vars

\* C8 witness: a start on an idle modem was denied
C8_Witness ==
  /\ lastOp = "startListening.denied"
  /\ thrown = "permission"
  /\ ~isListening
  /\ microphoneStream = "null"
  /\ pendingTicks = 0

\* C9: a window of the decode loop is skipped exactly when its energy is
\* below the configured minEnergy.
C9_ConfiguredGate ==
  \A k \in 1..Len(tickLog) :
    tickLog[k].skipped
      <=> EnergyBelow(Window(ringBuffer, tickLog[k].offset, symbolSamples),
                      config.minEnergy)

\* C10: an append leaves the buffer holding the most recent
\* min(64 * symbolSamples, total) samples of the old buffer followed by the
\* block, in their order.
C10_RingFifo ==
  [][lastOp' = "addToRingBuffer" =>
       LET extended == ringBuffer \o chunk'
           n == Min(64 * symbolSamples, Len(extended))
       IN /\ Len(ringBuffer') = n
          /\ Len(ringBuffer') <= 64 * symbolSamples
          /\ \A i \in 1..n : ringBuffer'[i] = extended[Len(extended) - n + i]]_vars

\* C10 witness: the buffer is full and the oldest appended samples are gone
C10_Witness ==
  /\ lastOp = "addToRingBuffer"
  /\ Len(ringBuffer) = 64 * symbolSamples
  /\ ringBuffer[1].amp > 1

\* the stream is START, payload, END
Framed(s) == Len(s) >= 2 /\ s[1] = START /\ s[Len(s)] = END
PayloadOf(s) == SubSeq(s, 2, Len(s) - 1)
HasByte(bytes, b) == \E i \in 1..Len(bytes) : bytes[i] = b

\* C11 as stated: a payload holding a START or an END byte is never returned
\* as the single frame it was sent as.
C11_Original ==
  (pc = "scanned" /\ Framed(stream)
     /\ (HasByte(PayloadOf(stream), START) \/ HasByte(PayloadOf(stream), END)))
    => frames # <<PayloadOf(stream)>>

\* C11, amended: a payload holding an END byte is not returned as the single
\* frame it was sent as (its first frame stops at that END); a payload
\* holding START bytes and no END byte is returned whole, as one frame.
C11_EndCollision ==
  (pc = "scanned" /\ Framed(stream)) =>
    IF HasByte(PayloadOf(stream), END)
    THEN /\ frames # <<PayloadOf(stream)>>
         /\ Len(frames) >= 1
         /\ Len(frames[1]) < Len(PayloadOf(stream))
    ELSE frames = <<PayloadOf(stream)>>

\* C11 witness: the payload 0x41, END has been scanned
C11_Witness ==
  /\ pc = "scanned"
  /\ stream = <<START, 65, END, END>>
  /\ frames = << <<65>> >>

\* the step ran the body of _loopDecode: it read a block and scanned
RanDecode == lastOp' \in {"tick", "startListening.granted"} /\ ticksRun' = ticksRun + 1

\* every sample of every whole symbol window of ring is zero
WindowsSilent(ring, symSamples) ==
  \A i \in 1..((Len(ring) \div symSamples) * symSamples) : ring[i].amp = 0

IsMessage(ev) == ev.type = "message"
NoMessageIn(events) == \A i \in 1..Len(events) : ~IsMessage(events[i])

\* C12: a decode tick whose symbol windows are all zero passes over every
\* window (each has energy 0, below the gate), leaves the bit queue and the
\* byte queue as they were and emits no message.
C12_SilenceDecodesNothing ==
  [][(RanDecode /\ WindowsSilent(ringBuffer', symbolSamples')) =>
       /\ Len(tickLog') = Len(ringBuffer') \div symbolSamples'
       /\ \A k \in 1..Len(tickLog') : tickLog'[k].skipped
       /\ \A k \in 1..Len(tickLog') :
            SumSquares(Window(ringBuffer', tickLog'[k].offset, symbolSamples')) = 0
       /\ bitQueue' = bitQueue
       /\ byteBuffer' = byteBuffer
       /\ NoMessageIn(emitted')]_vars

\* C12 witness: the second tick of a run has scanned a buffer of silence
C12_Witness ==
  /\ lastOp = "tick"
  /\ ticksRun = 2
  /\ Len(tickLog) >= 2
  /\ WindowsSilent(ringBuffer, symbolSamples)
  /\ \A k \in 1..Len(tickLog) : tickLog[k].skipped

\* the append of this step evicted nothing: the samples of the buffer before
\* the step are at the same offsets after it
NothingEvicted == Len(ringBuffer') = Len(ringBuffer) + Len(chunk')

\* C13 as stated: a window handed to the detector in one decode tick is not
\* handed to it again in a later tick.  tickLog is the log of the latest
\* decode before the step and tickLog' the log of this one; while nothing is
\* evicted, equal offsets are the same samples.
C13_WindowsScannedOnce ==
  [][(RanDecode /\ NothingEvicted) =>
       \A j \in 1..Len(tickLog) : \A k \in 1..Len(tickLog') :
          (tickLog[j].offset = tickLog'[k].offset /\ ~tickLog[j].skipped)
            => tickLog'[k].skipped]_vars

----------------------------------------------------------------------------
(* The byte queue run: bytes are pushed through _collectByte, starting with *)
(* empty queues.  The first MaxHead bytes are any of START, END and "A";    *)
(* then MaxByteBuffer bytes "A" follow, which fill the queue to its bound;  *)
(* then MaxTail more bytes of any kind.  stream logs the bytes pushed.      *)

QueueBytes == {START, END, 65}

QueueInputs(n) ==
  IF n < MaxHead \/ n >= MaxHead + MaxByteBuffer THEN QueueBytes ELSE {65}

QueueInit ==
  /\ Constructed(PageConfig)
  /\ HostIdle
  /\ NoStep
  /\ message = <<>>
  /\ packet = <<>>
  /\ waveform = NoWaveform
  /\ fed = 0
  /\ messages = <<>>
  /\ stream = <<>>
  /\ frames = <<>>
  /\ pc = "queue"

QueuePush ==
  /\ pc = "queue"
  /\ fed < MaxHead + MaxByteBuffer + MaxTail
  /\ \E b \in QueueInputs(fed) :
       LET r == collectByte(byteBuffer, bitQueue, b)
       IN /\ byteBuffer' = r.byteBuffer
          /\ bitQueue' = r.bitQueue
          /\ emitted' = r.events
          /\ frames' = r.frames
          /\ messages' = messages \o r.events
          /\ stream' = Append(stream, b)
  /\ fed' = fed + 1
  /\ lastOp' = "collectByte"
  /\ thrown' = "none"
  /\ UNCHANGED <<config, audioContext, microphoneStream, isListening, analysisNode,
                 ringBuffer, symbolSamples, hostVars, tickLog, chunk,
                 message, packet, waveform, pc>>

QueueNext == QueuePush

SpecQueue == QueueInit /\ [][QueueNext]_vars

\* the index of the first b in s, 0 if there is none
FirstIndex(s, b) == NextIndex(s, b, 1)

\* the byte queue as the scan of a push of b sees it
Scanned(bytes, b) ==
  IF Len(bytes) = MaxByteBuffer THEN Append(Tail(bytes), b) ELSE Append(bytes, b)

\* the push of b completes a frame: b is END and a START waits in the queue
Completes(bytes, b) == b = END /\ FirstIndex(Scanned(bytes, b), START) > 0

\* the frame the push of END completes: the bytes after the first START
CompletedFrame(bytes) ==
  LET q == Scanned(bytes, END) IN SubSeq(q, FirstIndex(q, START) + 1, Len(q) - 1)

\* C14: a push that completes a frame emits exactly one message event, with
\* the text of that frame, and leaves the byte queue and the bit queue
\* empty; a push that completes no frame emits no message event and leaves
\* the bit queue as it was.
C14_FullResetOnDecode ==
  [][lastOp' = "collectByte" =>
       LET b == stream'[Len(stream')] IN
       IF Completes(byteBuffer, b)
       THEN /\ emitted' = <<MessageEvent(bytesToString(CompletedFrame(byteBuffer)))>>
            /\ byteBuffer' = <<>>
            /\ bitQueue' = <<>>
       ELSE /\ NoMessageIn(emitted')
            /\ bitQueue' = bitQueue
            /\ byteBuffer' = Scanned(byteBuffer, b)]_vars

\* C14 witness: START, "A", END has been pushed and the message "A" emitted
C14_Witness ==
  /\ lastOp = "collectByte"
  /\ Len(stream) >= 3
  /\ SubSeq(stream, Len(stream) - 2, Len(stream)) = <<START, 65, END>>
  /\ emitted = <<MessageEvent(bytesToString(<<65>>))>>
  /\ byteBuffer = <<>>
  /\ bitQueue = <<>>

\* position k of the pushed bytes s is a START with at least MaxByteBuffer
\* bytes after it, none of the first MaxByteBuffer of them an END
Overrun(s, k) ==
  /\ s[k] = START
  /\ k + MaxByteBuffer <= Len(s)
  /\ \A j \in (k + 1)..(k + MaxByteBuffer) : s[j] # END

\* C15: the byte queue never holds more than 512 bytes; a push onto a full
\* queue evicts the oldest byte; a START followed by 512 or more non-END
\* bytes is no longer in the queue, no error is thrown or emitted by any
\* push, and no message is emitted by a push of a byte other than END nor by
\* a push that leaves no START in the queue.
C15_BoundedQueue ==
  [][lastOp' = "collectByte" =>
       LET b == stream'[Len(stream')] IN
       /\ Len(byteBuffer') <= MaxByteBuffer
       /\ byteBuffer' = SubSeq(stream', Len(stream') - Len(byteBuffer') + 1, Len(stream'))
       /\ (Len(byteBuffer) = MaxByteBuffer /\ ~Completes(byteBuffer, b))
            => byteBuffer' = Append(Tail(byteBuffer), b)
       /\ \A k \in 1..Len(stream') :
            Overrun(stream', k) => Len(byteBuffer') <= Len(stream') - k
       /\ thrown' = "none"
       /\ \A i \in 1..Len(emitted') : emitted'[i].type # "error"
       /\ (b # END \/ ~HasByte(Scanned(byteBuffer, b), START)) => NoMessageIn(emitted')]_vars

\* C15 witness: a START and more than 512 bytes "A" were pushed, then an END:
\* the queue is full, the START is gone and nothing was ever emitted
C15_Witness ==
  /\ lastOp = "collectByte"
  /\ Len(stream) > MaxByteBuffer + 1
  /\ stream[1] = START
  /\ \A j \in 2..(Len(stream) - 1) : stream[j] = 65
  /\ stream[Len(stream)] = END
  /\ Len(byteBuffer) = MaxByteBuffer
  /\ ~HasByte(byteBuffer, START)
  /\ messages = <<>>

\* C16: a tick that finds the modem stopped reads no samples, changes no
\* field of the modem, emits nothing and asks for no further frame; and if
\* from some point on the modem is stopped with no startListening call in
\* flight, then from some point on no tick is pending.
C16_CooperativeCancel ==
  /\ [][(lastOp' = "tick" /\ ~isListening) =>
          /\ UNCHANGED <<modemVars, chunk, ticksRun, openStreams>>
          /\ emitted' = <<>>
          /\ tickLog' = <<>>
          /\ pendingTicks' = pendingTicks - 1]_vars
  /\ (<>[](~isListening /\ CallsInFlight = 0)) => <>[](pendingTicks = 0)

\* C16 witness: after a listening session was stopped, its scheduled tick
\* has run and none is pending
C16_Witness ==
  /\ lastOp = "tick"
  /\ ~isListening
  /\ ticksRun > 0
  /\ pendingTicks = 0
  /\ CallsInFlight = 0

\* C17 as stated: an error raised inside a tick of a listening session is
\* caught in that tick and emitted as an error event, and the next tick is
\* scheduled.
C17_ErrorContained ==
  [][lastOp' = "tick.error" =>
       /\ thrown' = "none"
       /\ \E i \in 1..Len(emitted') : emitted'[i].type = "error"
       /\ pendingTicks' = pendingTicks]_vars

\* C19 as stated: at most one decode tick is pending and at most one capture
\* stream is open.
C19_OneLoopOneStream == pendingTicks <= 1 /\ openStreams <= 1

----------------------------------------------------------------------------
(* The bit packing run: a modem is constructed with a symbol width of 1 to  *)
(* 8 bits, _packetToSamples lays out one packet, and the symbols of the     *)
(* waveform are handed in order to _handleDetectedSymbol of a modem with    *)
(* empty queues.  The packets hold no END byte, so no frame completes and   *)
(* the byte queue keeps every byte the accumulator gathers.                 *)

SymbolWidths == 1..8

BitsBytes == {START, 65, 165}

BitsInit ==
  /\ \E width \in SymbolWidths :
       Constructed(Merge(PageConfig, [bitsPerSymbol |-> width]))
  /\ HostIdle
  /\ NoStep
  /\ message = <<>>
  /\ packet \in SeqsUpTo(BitsBytes, MaxPacketLen) \ {<<>>}
  /\ waveform = NoWaveform
  /\ fed = 0
  /\ messages = <<>>
  /\ stream = <<>>
  /\ frames = <<>>
  /\ pc = "ready"

\* send from its call of _packetToSamples on, for the packet at hand
BitsEncode ==
  /\ pc = "ready"
  /\ init
  /\ waveform' = packetToSamples(packet, config, symbolSamples')
  /\ pc' = "sent"
  /\ lastOp' = "_packetToSamples"
  /\ emitted' = <<>>
  /\ thrown' = "none"
  /\ UNCHANGED <<config, microphoneStream, isListening, analysisNode, bitQueue,
                 byteBuffer, hostVars, tickLog, chunk,
                 message, packet, fed, messages, stream, frames>>

BitsNext == BitsEncode \/ CodecReceive

SpecBits == BitsInit /\ [][BitsNext]_vars

\* C18 as stated: for every symbol width of 1 to 8 bits the symbols emitted
\* for a packet carry all of its 8 * len bits, and the byte accumulator fed
\* with them in order gathers the bytes of the packet, in order.
C18_BitPackingSymmetric ==
  CodecDone =>
    /\ Len(waveform.symbols) * config.bitsPerSymbol >= 8 * Len(packet)
    /\ byteBuffer = packet

\* C20: in the byte queue run every scan of the byte queue by extractFrames
\* finds at most one complete frame, and a frame found is the one whose text
\* is emitted; a scan that finds none emits nothing.
C20_NoFrameDropped ==
  lastOp = "collectByte" =>
    /\ Len(frames) <= 1
    /\ Len(emitted) = Len(frames)
    /\ \A i \in 1..Len(frames) : emitted[i] = MessageEvent(bytesToString(frames[i]))

\* C20 witness: the first frame of a run completes after the queue has
\* overflowed and evicted bytes
C20_Witness ==
  /\ lastOp = "collectByte"
  /\ Len(stream) > MaxByteBuffer + MaxHead
  /\ Len(frames) = 1
  /\ Len(messages) = 1

====
